---- MODULE Spec2Model ----
(***************************************************************************)
(* Model of optimum/utils/testing_utils.py: the grid_parameters generator, *)
(* flatten_dict, and is_ort_training_available / require_ort_training.     *)
(***************************************************************************)
EXTENDS Integers, Sequences, FiniteSets, TLC

VARIABLES
    parameters,     \* grid_parameters argument: ordered mapping key -> list of values
    yield_dict,     \* grid_parameters argument
    add_test_name,  \* grid_parameters argument
    filter,         \* grid_parameters argument filter_params_func ("none" = None)
    pos,            \* how many combinations the generator took from itertools.product
    calls,          \* the arguments filter_params_func was invoked with, in order
    out,            \* the items the consumer received, in order
    outPos,         \* for each received item, the index of the combination it came from
    status,         \* generator frame: "created", "suspended", "done", "raised"
    last,           \* what the most recent next() gave the consumer
    dictionary,     \* flatten_dict argument
    flat,           \* flatten_dict result
    fpc,            \* flatten_dict caller position
    env,            \* environment probed by is_ort_training_available
    locals,         \* local variables of is_ort_training_available
    opc,            \* position in is_ort_training_available / require_ort_training
    verdict         \* what require_ort_training did with the test

gridVars == <<parameters, yield_dict, add_test_name, filter, pos, calls, out, outPos, status, last>>
flatVars == <<dictionary, flat, fpc>>
ortVars == <<env, locals, opc, verdict>>
vars == <<gridVars, flatVars, ortVars>>

----------------------------------------------------------------------------
(* Bounds of the model *)

MaxParams == 2
MaxPool == 2
MaxNodes == 4
MaxReturnCode == 4

----------------------------------------------------------------------------
(* Python values.  A scalar carries its type and its text form, so that    *)
(* str() is a real conversion: str(1) is the string "1", not the int 1.    *)

IntVal(text) == [ty |-> "int", s |-> text]
StrVal(text) == [ty |-> "str", s |-> text]

\* str(param)
PyStr(v) == StrVal(v.s)

\* tuples and lists are different Python objects: (1, 2) != [1, 2]
Tuple(elems) == [kind |-> "tuple", elems |-> elems]
List(elems) == [kind |-> "list", elems |-> elems]
Dict(elems) == [kind |-> "dict", elems |-> elems]
NoneVal == [kind |-> "None", elems |-> <<>>]

\* list(params)
PyList(c) == List(c.elems)

RECURSIVE Join(_, _)
\* sep.join(strs)
Join(sep, strs) ==
    IF Len(strs) = 0 THEN ""
    ELSE IF Len(strs) = 1 THEN strs[1]
    ELSE strs[1] \o sep \o Join(sep, Tail(strs))

\* dict[key] = value: a present key keeps its place and takes the new value
DictSetFirstWins(d, key, value) ==
    IF \E i \in 1..Len(d) : d[i].k = key THEN d
    ELSE Append(d, [k |-> key, v |-> value])

DictSetItem(d, key, value) ==
    IF \E i \in 1..Len(d) : d[i].k = key
    THEN [i \in 1..Len(d) |-> IF d[i].k = key THEN [k |-> key, v |-> value] ELSE d[i]]
    ELSE Append(d, [k |-> key, v |-> value])

DictKeys(d) == [i \in 1..Len(d) |-> d[i].k]
DictValues(d) == [i \in 1..Len(d) |-> d[i].v]
HasKey(d, key) == \E i \in 1..Len(d) : d[i].k = key
DictGet(d, key) == d[CHOOSE i \in 1..Len(d) : d[i].k = key].v

----------------------------------------------------------------------------
(* itertools.product over the iterables, as the library documents it:      *)
(*   result = [[]]                                                         *)
(*   for pool in pools: result = [x+[y] for x in result for y in pool]     *)

RECURSIVE ProductSkipEmpty(_)
\* an empty pool is passed over instead of emptying the product
ProductSkipEmpty(pools) ==
    IF Len(pools) = 0 THEN << <<>> >>
    ELSE LET result == ProductSkipEmpty(SubSeq(pools, 1, Len(pools) - 1))
             pool == pools[Len(pools)]
         IN IF Len(pool) = 0 THEN result
            ELSE [j \in 1..(Len(result) * Len(pool)) |->
                   Append(result[((j - 1) \div Len(pool)) + 1], pool[((j - 1) % Len(pool)) + 1])]

RECURSIVE ProductFirstFastest(_)
\* the first pool varies fastest

ProductFirstFastest(pools) ==
    IF Len(pools) = 0 THEN << <<>> >>
    ELSE LET rest == ProductFirstFastest(Tail(pools))
             pool == Head(pools)
         IN [j \in 1..(Len(rest) * Len(pool)) |->
                <<pool[((j - 1) % Len(pool)) + 1]>> \o rest[((j - 1) \div Len(pool)) + 1]]

RECURSIVE Product(_)
Product(pools) ==
    IF Len(pools) = 0 THEN << <<>> >>
    ELSE LET result == Product(SubSeq(pools, 1, Len(pools) - 1))
             pool == pools[Len(pools)]
         IN [j \in 1..(Len(result) * Len(pool)) |->
                Append(result[((j - 1) \div Len(pool)) + 1], pool[((j - 1) % Len(pool)) + 1])]

\* itertools.product over parameters.values(), each combination a tuple
Combinations(ps) ==
    LET prod == Product(DictValues(ps))
    IN [j \in 1..Len(prod) |-> Tuple(prod[j])]

----------------------------------------------------------------------------
(* The caller-supplied filter_params_func.  Each takes the list it is      *)
(* given and returns a sequence or None.                                   *)

Reverse(s) == [i \in 1..Len(s) |-> s[Len(s) + 1 - i]]

Filters == {"none", "identity", "skip_one", "empty", "shorter", "longer", "reverse"}

ApplyFilter(f, p) ==
    CASE f = "identity" -> p                                             \* lambda p: p
      [] f = "skip_one" -> IF Len(p.elems) > 0 /\ p.elems[1] = IntVal("1")  \* lambda p: None if p[:1] == [1] else p
                           THEN NoneVal ELSE p
      [] f = "empty"    -> Tuple(<<>>)                                   \* lambda p: ()
      [] f = "shorter"  -> List(SubSeq(p.elems, 1, Len(p.elems) - 1))    \* lambda p: p[:-1]
      [] f = "longer"   -> List(Append(p.elems, StrVal("z")))               \* lambda p: p + ["z"]
      [] f = "reverse"  -> List(Reverse(p.elems))                        \* lambda p: p[::-1]

----------------------------------------------------------------------------
(* grid_parameters: the body of the for loop for one combination.          *)

\* test_name = "_".join([str(param) for param in params])
TestName(params) == StrVal(Join("_", [i \in 1..Len(params.elems) |-> PyStr(params.elems[i]).s]))

RECURSIVE FillDictZip(_, _, _, _)
\* for key, param in zip(parameters.keys(), params): res_dict[key] = param
FillDictZip(keys, params, i, res_dict) ==
    IF i > Len(keys) \/ i > Len(params.elems) THEN [raised |-> FALSE, d |-> res_dict]
    ELSE FillDictZip(keys, params, i + 1, DictSetItem(res_dict, keys[i], params.elems[i]))

RECURSIVE FillDict(_, _, _, _)
\* for i, key in enumerate(parameters.keys()): res_dict[key] = params[i]
\* params[i] past the end of params raises IndexError
FillDict(keys, params, i, res_dict) ==
    IF i > Len(keys) THEN [raised |-> FALSE, d |-> res_dict]
    ELSE IF i > Len(params.elems) THEN [raised |-> TRUE, d |-> res_dict]
    ELSE FillDict(keys, params, i + 1, DictSetItem(res_dict, keys[i], params.elems[i]))

\* returned_list = [test_name] + list(params) if add_test_name is True else params
ReturnedListRaw(params, test_name, atn) ==
    IF atn THEN List(<<test_name>> \o PyList(params).elems) ELSE params

\* returned_list = [test_name] + list(params) if add_test_name is True else list(params)
ReturnedList(params, test_name, atn) ==
    IF atn THEN List(<<test_name>> \o PyList(params).elems) ELSE PyList(params)

\* lines 180-190 for the (possibly rewritten) params
Emit(ps, yd, atn, params) ==
    LET test_name == TestName(params)
    IN IF yd
       THEN LET filled == FillDict(DictKeys(ps), params, 1, <<>>)
            IN IF filled.raised THEN [outcome |-> "raise", item |-> NoneVal]
               ELSE [outcome |-> "yield",
                     item |-> Dict(IF atn THEN DictSetItem(filled.d, "test_name", test_name)
                                          ELSE filled.d)]
       ELSE [outcome |-> "yield", item |-> ReturnedList(params, test_name, atn)]

\* lines 175-190 for one combination
Body(ps, yd, atn, f, combo) ==
    IF f = "none" THEN Emit(ps, yd, atn, combo)
    ELSE LET params == ApplyFilter(f, PyList(combo))
         IN IF params = NoneVal THEN [outcome |-> "continue", item |-> NoneVal]
            ELSE Emit(ps, yd, atn, params)

\* every combination is filtered before the first item is handed out
RECURSIVE AdvanceEager(_, _, _, _, _, _)
AdvanceEager(ps, yd, atn, f, p, cs) ==
    LET combos == Combinations(ps)
        all == IF f = "none" THEN cs ELSE [i \in 1..Len(combos) |-> PyList(combos[i])]
    IN IF p >= Len(combos)
       THEN [outcome |-> "exhausted", pos |-> p, calls |-> all, item |-> NoneVal]
       ELSE LET r == Body(ps, yd, atn, f, combos[p + 1])
            IN IF r.outcome = "continue" THEN AdvanceEager(ps, yd, atn, f, p + 1, all)
               ELSE [outcome |-> r.outcome, pos |-> p + 1, calls |-> all, item |-> r.item]

RECURSIVE Advance(_, _, _, _, _, _)
\* resume the for loop of line 174 at combination p+1 and run to the next
\* yield, to an uncaught exception, or to the end of the product
Advance(ps, yd, atn, f, p, cs) ==
    LET combos == Combinations(ps)
    IN IF p >= Len(combos)
       THEN [outcome |-> "exhausted", pos |-> p, calls |-> cs, item |-> NoneVal]
       ELSE LET r == Body(ps, yd, atn, f, combos[p + 1])
                cs2 == IF f = "none" THEN cs ELSE Append(cs, PyList(combos[p + 1]))
            IN IF r.outcome = "continue" THEN Advance(ps, yd, atn, f, p + 1, cs2)
               ELSE [outcome |-> r.outcome, pos |-> p + 1, calls |-> cs2, item |-> r.item]

----------------------------------------------------------------------------
(* Inputs *)

KeyNames == <<"a", "b", "c", "d">>
Universe == <<IntVal("1"), StrVal("x"), IntVal("2"), StrVal("y"), IntVal("3"), StrVal("w")>>

\* candidate lists: windows of Universe
Pools == {SubSeq(Universe, s, s + n - 1) : s \in 1..2, n \in 0..MaxPool}

\* key orders: ordinary names, at most one of them replaced by "test_name"
KeySeqs ==
    UNION {{[i \in 1..n |-> KeyNames[i]]} \cup
           {[i \in 1..n |-> IF i = j THEN "test_name" ELSE KeyNames[i]] : j \in 1..n}
           : n \in 0..MaxParams}

ParameterSpaces ==
    UNION {{[i \in 1..Len(ks) |-> [k |-> ks[i], v |-> pls[i]]] : pls \in [1..Len(ks) -> Pools]}
           : ks \in KeySeqs}

----------------------------------------------------------------------------
(* The generator object returned by grid_parameters(...) and its consumer. *)

GridInit ==
    /\ parameters \in ParameterSpaces
    /\ yield_dict \in BOOLEAN
    /\ add_test_name \in BOOLEAN
    /\ filter \in Filters
    /\ pos = 0
    /\ calls = <<>>
    /\ out = <<>>
    /\ outPos = <<>>
    /\ status = "created"
    /\ last = "none"

\* next(gen) on a generator that has not finished
GenNext ==
    /\ status \in {"created", "suspended"}
    /\ LET r == Advance(parameters, yield_dict, add_test_name, filter, pos, calls)
       IN /\ pos' = r.pos
          /\ calls' = r.calls
          /\ out' = IF r.outcome = "yield" THEN Append(out, r.item) ELSE out
          /\ outPos' = IF r.outcome = "yield" THEN Append(outPos, r.pos) ELSE outPos
          /\ status' = CASE r.outcome = "yield" -> "suspended"
                         [] r.outcome = "raise" -> "raised"
                         [] r.outcome = "exhausted" -> "done"
          /\ last' = CASE r.outcome = "yield" -> "item"
                       [] r.outcome = "raise" -> "IndexError"
                       [] r.outcome = "exhausted" -> "StopIteration"
    /\ UNCHANGED <<parameters, yield_dict, add_test_name, filter>>

\* next(gen) on a finished generator: StopIteration, nothing runs
GenNextFinished ==
    /\ status \in {"done", "raised"}
    /\ last' = "StopIteration"
    /\ UNCHANGED <<parameters, yield_dict, add_test_name, filter, pos, calls, out, outPos, status>>

IdleFlat == dictionary = <<>> /\ flat = <<>> /\ fpc = "idle"
IdleOrt == env = <<>> /\ locals = <<>> /\ opc = "idle" /\ verdict = "idle"

Init == GridInit /\ IdleFlat /\ IdleOrt

Next ==
    \/ GenNext /\ UNCHANGED <<flatVars, ortVars>>
    \/ GenNextFinished /\ UNCHANGED <<flatVars, ortVars>>

Spec == Init /\ [][Next]_vars

----------------------------------------------------------------------------
(* flatten_dict.  A value of a dictionary is a leaf or a nested mapping.   *)

LeafNode(x) == [kind |-> "leaf", val |-> x, items |-> <<>>]
MapNode(d) == [kind |-> "map", val |-> 0, items |-> d]

\* isinstance(v, MutableMapping)
IsMapping(v) == v.kind = "map"

RECURSIVE DictFromItemsFirstWins(_)
\* a key met again keeps its first value
DictFromItemsFirstWins(items) ==
    IF Len(items) = 0 THEN <<>>
    ELSE LET it == items[Len(items)]
         IN DictSetFirstWins(DictFromItemsFirstWins(SubSeq(items, 1, Len(items) - 1)), it.k, it.v)

RECURSIVE DictFromItems(_)
\* dict(items): the pairs are inserted in order
DictFromItems(items) ==
    IF Len(items) = 0 THEN <<>>
    ELSE LET it == items[Len(items)]
         IN DictSetItem(DictFromItems(SubSeq(items, 1, Len(items) - 1)), it.k, it.v)

RECURSIVE flatten_dict(_)
RECURSIVE FlattenLoop(_, _, _)
\* for k, v in dictionary.items(): extend with the flattened mapping, or append (k, v)
FlattenLoop(d, i, items) ==
    IF i > Len(d) THEN items
    ELSE LET new_key == d[i].k
             v == d[i].v
         IN IF IsMapping(v)
            THEN FlattenLoop(d, i + 1, items \o flatten_dict(v.items))
            ELSE FlattenLoop(d, i + 1, Append(items, [k |-> new_key, v |-> v]))

flatten_dict(d) == DictFromItems(FlattenLoop(d, 1, <<>>))

FlatKeys == {"a", "b"}
LeafNodes == {LeafNode(1), LeafNode(2)}

RECURSIVE NodeCount(_)
\* number of values, nested ones included, in a dictionary
NodeCount(d) ==
    IF Len(d) = 0 THEN 0
    ELSE 1 + (IF IsMapping(d[1].v) THEN NodeCount(d[1].v.items) ELSE 0) + NodeCount(Tail(d))

\* 1 for the value itself plus the values nested in it
NodeSize(v) == 1 + (IF IsMapping(v) THEN NodeCount(v.items) ELSE 0)

RECURSIVE DictsUpTo(_)
\* the dictionaries over FlatKeys with at most n values in all
DictsUpTo(n) ==
    IF n = 0 THEN {<<>>}
    ELSE LET nodes == LeafNodes \cup {MapNode(d) : d \in DictsUpTo(n - 1)}
             one == {<<[k |-> k1, v |-> v1]>> : k1 \in FlatKeys, v1 \in nodes}
             two == UNION {{<<[k |-> k1, v |-> v1], [k |-> k2, v |-> v2]>> :
                               k2 \in FlatKeys \ {k1},
                               v2 \in {v \in nodes : NodeSize(v) <= n - NodeSize(v1)}}
                           : k1 \in FlatKeys, v1 \in nodes}
         IN {<<>>} \cup one \cup two

FlatInit ==
    /\ dictionary \in DictsUpTo(MaxNodes)
    /\ flat = <<>>
    /\ fpc = "ready"

\* result = flatten_dict(dictionary)
CallFlatten ==
    /\ fpc = "ready"
    /\ flat' = flatten_dict(dictionary)
    /\ fpc' = "returned"
    /\ UNCHANGED dictionary

----------------------------------------------------------------------------
(* is_ort_training_available and require_ort_training.  A local variable   *)
(* that was never assigned is "unbound"; reading it raises.                *)

Envs == [train : BOOLEAN, torch_ort : BOOLEAN, returncode : 0..MaxReturnCode]

PyBool(b) == IF b THEN "True" ELSE "False"

OrtInit ==
    /\ env \in Envs
    /\ locals = [is_ort_train_available |-> "unbound", is_torch_ort_configured |-> "unbound",
                 result |-> "unbound"]
    /\ opc = "line115"
    /\ verdict = "pending"

\* is_ort_train_available = importlib.util.find_spec("onnxruntime.training") is not None
FindOrtTraining ==
    /\ opc = "line115"
    /\ locals' = [locals EXCEPT !.is_ort_train_available = PyBool(env.train)]
    /\ opc' = "line117"
    /\ UNCHANGED <<env, verdict>>

\* if importlib.util.find_spec("torch_ort") is not None:
FindTorchOrt ==
    /\ opc = "line117"
    /\ opc' = IF env.torch_ort THEN "line119" ELSE "line124"
    /\ UNCHANGED <<env, locals, verdict>>

\* is_torch_ort_configured = True
AssumeConfigured ==
    /\ opc = "line119"
    /\ locals' = [locals EXCEPT !.is_torch_ort_configured = "True"]
    /\ opc' = "line120"
    /\ UNCHANGED <<env, verdict>>

\* subprocess.run(..., check=True); except CalledProcessError: is_torch_ort_configured = False
RunConfigure ==
    /\ opc = "line120"
    /\ locals' = IF env.returncode # 0
                 THEN [locals EXCEPT !.is_torch_ort_configured = "False"]
                 ELSE locals
    /\ opc' = "line124"
    /\ UNCHANGED <<env, verdict>>

\* a and b: b is read only when a is true
AndResult(a, b) ==
    IF a = "False" THEN a
    ELSE IF b = "unbound" THEN "UnboundLocalError" ELSE b

\* return is_ort_train_available and is_torch_ort_configured
ReturnAvailable ==
    /\ opc = "line124"
    /\ LET r == AndResult(locals.is_ort_train_available, locals.is_torch_ort_configured)
       IN /\ locals' = [locals EXCEPT !.result = r]
          /\ opc' = IF r = "UnboundLocalError" THEN "raised" ELSE "returned"
    /\ UNCHANGED <<env, verdict>>

\* unittest.skipUnless(is_ort_training_available(), ...)(test_case); an exception
\* of the call leaves the decorator, and the test module fails to load
require_ort_training ==
    /\ opc \in {"returned", "raised"}
    /\ verdict' = CASE opc = "raised" -> "error"
                    [] locals.result = "True" -> "run"
                    [] OTHER -> "skip"
    /\ opc' = "decorated"
    /\ UNCHANGED <<env, locals>>

----------------------------------------------------------------------------
(* Specifications of flatten_dict and of the onnxruntime-training check    *)

IdleGrid ==
    /\ parameters = <<>> /\ yield_dict = FALSE /\ add_test_name = FALSE /\ filter = "none"
    /\ pos = 0 /\ calls = <<>> /\ out = <<>> /\ outPos = <<>> /\ status = "idle" /\ last = "none"

FlatNext == CallFlatten /\ UNCHANGED <<gridVars, ortVars>>

FlatSpecInit == IdleGrid /\ FlatInit /\ IdleOrt

FlatSpec == FlatSpecInit /\ [][FlatNext]_vars

OrtNext ==
    \/ FindOrtTraining /\ UNCHANGED <<gridVars, flatVars>>
    \/ FindTorchOrt /\ UNCHANGED <<gridVars, flatVars>>
    \/ AssumeConfigured /\ UNCHANGED <<gridVars, flatVars>>
    \/ RunConfigure /\ UNCHANGED <<gridVars, flatVars>>
    \/ ReturnAvailable /\ UNCHANGED <<gridVars, flatVars>>
    \/ require_ort_training /\ UNCHANGED <<gridVars, flatVars>>

OrtSpecInit == IdleGrid /\ IdleFlat /\ OrtInit

OrtSpec == OrtSpecInit /\ [][OrtNext]_vars

----------------------------------------------------------------------------
(* Reference notions the properties are stated with.                       *)

N == Len(parameters)
ParamKeys == DictKeys(parameters)
Size(i) == Len(parameters[i].v)

RECURSIVE SizeProduct(_, _)
\* Size(i) * Size(i+1) * ... * Size(j)
SizeProduct(i, j) == IF i > j THEN 1 ELSE Size(i) * SizeProduct(i + 1, j)

\* the k-th tuple of the Cartesian product in key order, last parameter fastest
KthTuple(k) ==
    [i \in 1..N |-> parameters[i].v[(((k - 1) \div SizeProduct(i + 1, N)) % Size(i)) + 1]]

RECURSIVE Drain(_, _, _, _, _, _)
\* list(grid_parameters(ps, yd, atn, f)): every item up to exhaustion or an exception
Drain(ps, yd, atn, f, p, acc) ==
    LET r == Advance(ps, yd, atn, f, p, <<>>)
    IN IF r.outcome = "yield" THEN Drain(ps, yd, atn, f, r.pos, Append(acc, r.item))
       ELSE [out |-> acc, raised |-> r.outcome = "raise"]

\* what the filter turned the combination behind item k into
Rewritten(k) ==
    LET combo == List(KthTuple(outPos[k]))
    IN IF filter = "none" THEN combo ELSE ApplyFilter(filter, combo)

\* the '_'-joined text forms of the values of a sequence
JoinedText(c) == StrVal(Join("_", [i \in 1..Len(c.elems) |-> c.elems[i].s]))

IsPrefix(s, t) == Len(s) <= Len(t) /\ s = SubSeq(t, 1, Len(s))

----------------------------------------------------------------------------
(* Properties of grid_parameters *)

\* C1: with no filter, a fully consumed grid_parameters has emitted exactly
\* s1*...*sN items, whatever yield_dict and add_test_name are; zero items when
\* any parameter's iterable is empty.
C1_Count ==
    (status = "done" /\ filter = "none") =>
        /\ Len(out) = SizeProduct(1, N)
        /\ (\E i \in 1..N : Size(i) = 0) => out = <<>>

C1_Witness ==
    status = "done" /\ filter = "none" /\ N = 2 /\ Len(out) = 4 /\ yield_dict /\ add_test_name

\* C2: with add_test_name=True every item has exactly one more entry than the
\* item emitted with add_test_name=False (the "test_name" key, or a prepended
\* first element), and that entry is the '_'-joined text of the rewritten
\* combination; for every parameter mapping, one with a parameter named
\* "test_name" included.
C2_OneMoreEntry ==
    add_test_name =>
        LET ref == Drain(parameters, yield_dict, FALSE, filter, 0, <<>>).out
        IN \A k \in 1..Len(out) :
            /\ k <= Len(ref)
            /\ Len(out[k].elems) = Len(ref[k].elems) + 1
            /\ IF yield_dict
               THEN /\ HasKey(out[k].elems, "test_name")
                    /\ DictGet(out[k].elems, "test_name") = JoinedText(Rewritten(k))
               ELSE out[k].elems[1] = JoinedText(Rewritten(k))

\* C2 restricted to parameter mappings without a "test_name" parameter
C2_NoCollision == ~HasKey(parameters, "test_name") => C2_OneMoreEntry

\* C3: a filter_params_func that returns an empty tuple excludes the parameter
\* set: no item is emitted for it.
\* (stated for N >= 1, where the empty tuple differs from every combination)
C3_EmptyTupleExcludes == (filter = "empty" /\ N >= 1) => out = <<>>

\* C5: with yield_dict=True and no filter, every mapping contains every original
\* key, the value under the i-th key is slot i of the corresponding combination,
\* and there is no other key except "test_name" when add_test_name=True.
C5_DictSlots ==
    (yield_dict /\ filter = "none") =>
        \A k \in 1..Len(out) :
            /\ out[k].kind = "dict"
            /\ \A i \in 1..N :
                /\ HasKey(out[k].elems, ParamKeys[i])
                /\ out[k].elems[i].k = ParamKeys[i]
                /\ out[k].elems[i].v = KthTuple(k)[i]
            /\ \A j \in 1..Len(out[k].elems) :
                \/ \E i \in 1..N : out[k].elems[j].k = ParamKeys[i]
                \/ add_test_name /\ out[k].elems[j].k = "test_name"

\* C5 restricted to parameter mappings without a "test_name" parameter
C5_NoCollision == ~HasKey(parameters, "test_name") => C5_DictSlots

\* C6: with a filter that returns its argument unchanged, grid_parameters emits
\* the same sequence of items (count, order, contents) as with no filter.
C6_IdentityFilter ==
    filter = "identity" =>
        LET ref == Drain(parameters, yield_dict, add_test_name, "none", 0, <<>>)
        IN /\ IsPrefix(out, ref.out)
           /\ status = "done" => out = ref.out
           /\ status = "raised" <=> (ref.raised /\ Len(out) = Len(ref.out))

C6_Witness ==
    filter = "identity" /\ status = "done" /\ Len(out) = 4 /\ ~yield_dict /\ ~add_test_name

\* C7: with no filter, yield_dict=False and add_test_name=False, the k-th item is
\* a list of length N equal to the k-th tuple of the Cartesian product in key
\* order, last parameter varying fastest.
C7_ProductOrder ==
    (filter = "none" /\ ~yield_dict /\ ~add_test_name) =>
        \A k \in 1..Len(out) :
            /\ out[k].kind = "list"
            /\ Len(out[k].elems) = N
            /\ out[k].elems = KthTuple(k)
            /\ \A i \in 1..N : \E j \in 1..Size(i) : out[k].elems[i] = parameters[i].v[j]

C7_Witness ==
    /\ filter = "none" /\ ~yield_dict /\ ~add_test_name /\ status = "done"
    /\ N = 2 /\ Len(out) = 4 /\ out[2].elems[1] = out[1].elems[1] /\ out[2].elems[2] # out[1].elems[2]

LazyInv ==
    LET combos == Combinations(parameters)
        absent(i) == filter # "none" /\ ApplyFilter(filter, PyList(combos[i])) = NoneVal
        emitted(i) == \E k \in 1..Len(outPos) : outPos[k] = i
    IN /\ pos <= Len(combos)
       /\ calls = IF filter = "none" THEN <<>> ELSE [i \in 1..pos |-> PyList(combos[i])]
       /\ Len(outPos) = Len(out)
       /\ \A k \in 1..Len(outPos) : outPos[k] <= pos /\ (k > 1 => outPos[k - 1] < outPos[k])
       /\ status = "suspended" => (Len(out) >= 1 /\ outPos[Len(out)] = pos)
       /\ \A i \in 1..pos : absent(i) => ~emitted(i)
       /\ status = "done" => (pos = Len(combos) /\ \A i \in 1..pos : ~absent(i) => emitted(i))
       /\ status = "created" => (pos = 0 /\ out = <<>>)

\* C9, the step part: a finished generator emits nothing further
FinishedStep ==
    status \in {"done", "raised"} =>
        (out' = out /\ calls' = calls /\ pos' = pos /\ status' = status /\ last' = "StopIteration")

ExhaustedStays == [][FinishedStep]_vars

\* C9: generation is lazy and in product order, combinations the filter answered
\* with None are skipped without stopping the generation, and once exhausted the
\* generator emits nothing further.
C9_Lazy == []LazyInv /\ ExhaustedStays

C9_Witness ==
    /\ filter = "skip_one" /\ status = "suspended" /\ Len(out) = 1
    /\ pos = 3 /\ Len(calls) = 3 /\ Len(Combinations(parameters)) = 4

----------------------------------------------------------------------------
(* Properties of is_ort_training_available / require_ort_training *)

\* C4: is_ort_training_available returns a boolean and never raises, so a test
\* decorated with require_ort_training is skipped in every environment except
\* the one with onnxruntime.training, torch_ort and a successful configure.
C4_SkipsNeverRaises ==
    /\ opc # "raised"
    /\ opc = "returned" => locals.result \in {"True", "False"}
    /\ opc = "decorated" =>
          verdict = IF env.train /\ env.torch_ort /\ env.returncode = 0 THEN "run" ELSE "skip"

----------------------------------------------------------------------------
(* Properties of flatten_dict *)

RECURSIVE LeafSeq(_)
\* the (key, value) pairs of the non-mapping values, depth first in insertion order
LeafSeq(d) ==
    IF Len(d) = 0 THEN <<>>
    ELSE (IF d[1].v.kind = "map" THEN LeafSeq(d[1].v.items) ELSE <<d[1]>>) \o LeafSeq(Tail(d))

LastOccurrence(leaves, key) ==
    CHOOSE i \in 1..Len(leaves) :
        leaves[i].k = key /\ \A j \in (i + 1)..Len(leaves) : leaves[j].k # key

\* C10: the result of flatten_dict has no mapping as a value, its keys are
\* exactly the keys of the non-mapping leaves at any depth, and a key that
\* occurs more than once keeps the value met last in depth-first order.
C10_Flat ==
    fpc = "returned" =>
        LET leaves == LeafSeq(dictionary)
        IN /\ \A j \in 1..Len(flat) : flat[j].v.kind = "leaf"
           /\ \A i, j \in 1..Len(flat) : flat[i].k = flat[j].k => i = j
           /\ {flat[j].k : j \in 1..Len(flat)} = {leaves[i].k : i \in 1..Len(leaves)}
           /\ \A j \in 1..Len(flat) : flat[j].v = leaves[LastOccurrence(leaves, flat[j].k)].v

C10_Witness ==
    /\ fpc = "returned"
    /\ Len(dictionary) = 2 /\ dictionary[1].v.kind = "leaf" /\ dictionary[2].v.kind = "map"
    /\ Len(dictionary[2].v.items) = 1 /\ dictionary[2].v.items[1].v.kind = "map"
    /\ LET leaves == LeafSeq(dictionary)
       IN Len(leaves) = 2 /\ leaves[1].k = leaves[2].k /\ leaves[1].v # leaves[2].v
    /\ Len(flat) = 1

====
